---- MODULE Spec2Model ----
(***************************************************************************)
(* QuickBooks integration service: the OAuth token lifecycle               *)
(* (app/services/token_service.py), the upstream request wrapper with its  *)
(* retry loop (app/services/quickbooks_service.py) and the two request     *)
(* handlers that drive them (app/api/routes/auth.py, accounts.py).         *)
(*                                                                         *)
(* The handlers are `async def`, but every call they make blocks          *)
(* (requests.request, time.sleep, the database session), so a handler     *)
(* holds the event loop of its worker process from the arrival of the     *)
(* request to its response.  task[w] is the handler worker w is running.  *)
(* Its steps are the places where it talks to the outside: one HTTP       *)
(* attempt of _make_request (with the sleep that follows it), one         *)
(* database statement, the return of the response.  Handlers of           *)
(* different workers interleave at these steps.  The clock advances on    *)
(* its own, at any moment, also while a call sleeps; slept records the     *)
(* delays a call has slept.                                                *)
(***************************************************************************)
EXTENDS Integers, Sequences, FiniteSets, TLC

VARIABLES rows, now, task, origin

vars == <<rows, now, task, origin>>

\* ------------------------------------------------------------------ bounds

\* the clock runs from 0 to MaxTime
MaxTime == 2

\* ---------------------------------------------------------------- constants

RATE_LIMIT_MAX_RETRIES == 3
RATE_LIMIT_RETRY_DELAY == 1

\* ------------------------------------------------------------------- inputs

Workers == {"w1", "w2"}
Realms == {"r1", "r2"}

\* the decoded OAuth response (app/models/token.py); no two sample tokens
\* agree in any field
Token(a, r, t, e, x) ==
    [access_token |-> a, refresh_token |-> r, token_type |-> t,
     expires_in |-> e, x_refresh_token_expires_in |-> x]

Tokens == {Token("a1", "f1", "bearer", 1, 1), Token("a2", "f2", "Bearer", 2, 6)}

NoToken == Token("", "", "", 0, 0)

\* the row is built with the access and the refresh token exchanged
QuickBooksTokenSwapped(realm, tokens, at) ==
    [realm_id |-> realm,
     access_token |-> tokens.refresh_token,
     refresh_token |-> tokens.access_token,
     token_type |-> tokens.token_type,
     expires_in |-> tokens.expires_in,
     x_refresh_token_expires_in |-> tokens.x_refresh_token_expires_in,
     created_at |-> at]

\* a row of the table quickbooks_tokens
QuickBooksToken(realm, tokens, at) ==
    [realm_id |-> realm,
     access_token |-> tokens.access_token,
     refresh_token |-> tokens.refresh_token,
     token_type |-> tokens.token_type,
     expires_in |-> tokens.expires_in,
     x_refresh_token_expires_in |-> tokens.x_refresh_token_expires_in,
     created_at |-> at]

\* what .first() gives when no row matches
NoRow == QuickBooksToken("", NoToken, 0)

\* ------------------------------------------------------------------- text

\* a str is the sequence of its characters
Whitespace == {" ", "\t", "\n"}

\* str.strip(): the whitespace at both ends goes
RECURSIVE LStrip(_)
LStrip(s) == IF s # <<>> /\ Head(s) \in Whitespace THEN LStrip(Tail(s)) ELSE s
RECURSIVE RStrip(_)
RStrip(s) ==
    IF s # <<>> /\ s[Len(s)] \in Whitespace THEN RStrip(SubSeq(s, 1, Len(s) - 1)) ELSE s
Strip(s) == RStrip(LStrip(s))

\* str.lower() and the test `sub in s`
UpperCase == <<"A", "B", "C", "D", "E", "F", "G", "H", "I", "J", "K", "L", "M",
               "N", "O", "P", "Q", "R", "S", "T", "U", "V", "W", "X", "Y", "Z">>
LowerCase == <<"a", "b", "c", "d", "e", "f", "g", "h", "i", "j", "k", "l", "m",
               "n", "o", "p", "q", "r", "s", "t", "u", "v", "w", "x", "y", "z">>
LowerOf(c) ==
    IF \E i \in 1..26 : UpperCase[i] = c
      THEN LowerCase[CHOOSE i \in 1..26 : UpperCase[i] = c]
      ELSE c
Lower(s) == [i \in 1..Len(s) |-> LowerOf(s[i])]
Contains(s, sub) ==
    \E i \in 1..(Len(s) - Len(sub) + 1) : SubSeq(s, i, i + Len(sub) - 1) = sub

\* int(str) of an unsigned decimal literal; of anything else it raises
\* ValueError
Digits == <<"0", "1", "2", "3", "4", "5", "6", "7", "8", "9">>
IsDigit(c) == \E d \in 1..10 : Digits[d] = c
DigitOf(c) == (CHOOSE d \in 1..10 : Digits[d] = c) - 1
IsInt(s) == s # <<>> /\ \A i \in 1..Len(s) : IsDigit(s[i])
RECURSIVE IntOf(_)
IntOf(s) ==
    IF Len(s) = 1
      THEN DigitOf(s[1])
      ELSE 10 * IntOf(SubSeq(s, 1, Len(s) - 1)) + DigitOf(s[Len(s)])

\* the bodies and header values the upstream sends
JSON_BODY == <<"{", "}">>
REFUSAL_BODY == <<"n", "o">>
TEN_SECONDS == <<"1", "0">>
HTTP_DATE == <<"W", "e", "d">>

\* str.format with one field: the field's place in the template takes the value
FIELD == "{name_prefix}"
RECURSIVE Format(_, _)
Format(template, value) ==
    IF template = <<>> THEN <<>>
    ELSE IF Head(template) = FIELD THEN value \o Format(Tail(template), value)
    ELSE <<Head(template)>> \o Format(Tail(template), value)

SQL_SELECT_ALL_ACCOUNTS ==
    <<"S", "E", "L", "E", "C", "T", " ", "*", " ", "F", "R", "O", "M", " ",
      "A", "c", "c", "o", "u", "n", "t">>
SQL_WHERE_NAME_LIKE ==
    <<" ", "W", "H", "E", "R", "E", " ", "N", "a", "m", "e", " ", "L", "I",
      "K", "E", " ", "'">>
      \o <<FIELD, "%", "'">>

\* ----------------------------------------------------------- the upstream

\* what the upstream does with one HTTP request: it answers with a status,
\* perhaps a Retry-After header, a body, or the connection fails
\* (requests.exceptions.RequestException)
NoHeader == <<>>
Answer(status, retry_after, body, tokens) ==
    [exc |-> FALSE, status_code |-> status, retry_after |-> retry_after,
     text |-> body, json |-> tokens]
ConnectionError == [exc |-> TRUE, status_code |-> 0, retry_after |-> NoHeader,
                    text |-> <<>>, json |-> NoToken]
NoResponse == [exc |-> FALSE, status_code |-> 0, retry_after |-> NoHeader,
               text |-> <<>>, json |-> NoToken]

\* a 429 with no Retry-After, with one in seconds, with one that is a date
RateLimited == {Answer(429, h, <<>>, NoToken) : h \in {NoHeader, TEN_SECONDS, HTTP_DATE}}
ServerFailures == {Answer(500, NoHeader, <<>>, NoToken), Answer(503, NoHeader, <<>>, NoToken)}

\* the token endpoint: a token, or a refusal of the grant
TokenAnswers == {Answer(200, NoHeader, JSON_BODY, t) : t \in Tokens}
                  \cup {Answer(400, NoHeader, REFUSAL_BODY, NoToken)}

\* the query endpoint: a status and a body
Bodies == {JSON_BODY, <<>>, <<" ", "\n">>, <<"E", "r", "r", "o", "r">>, <<"<", "h", ">">>}
QueryAnswers == {Answer(s, NoHeader, b, NoToken) : s \in {200}, b \in Bodies}
                  \cup {Answer(s, NoHeader, b, NoToken) : s \in {400, 401, 403}, b \in {<<>>, REFUSAL_BODY}}

Transient == RateLimited \cup {ConnectionError}

Outcomes(call) ==
    Transient \cup ServerFailures
      \cup (IF call = "query" THEN QueryAnswers ELSE TokenAnswers)

\* the outcomes of a deployment whose upstream neither throttles nor drops
\* connections
SteadyOutcomes(call) ==
    {Answer(500, NoHeader, <<>>, NoToken)}
      \cup (IF call = "query"
              THEN {Answer(200, NoHeader, JSON_BODY, NoToken), Answer(401, NoHeader, <<>>, NoToken)}
              ELSE TokenAnswers)

\* ------------------------------------------------------------- exceptions

\* a raised exception: the message constant of app/core/constants.py (or the
\* exception class, for those the libraries raise), the number and the text
\* formatted into it
Error(msg, code, text) == [msg |-> msg, code |-> code, text |-> text]
NoError == Error("", 0, <<>>)

\* an HTTP response of this service
NoContent == <<>>
HttpResult(status_code, detail, cause, content) ==
    [status_code |-> status_code, detail |-> detail, cause |-> cause, content |-> content]
NoResult == HttpResult(0, "", NoError, NoContent)

NOT_AUTHENTICATED == "Not authenticated with QuickBooks. Please visit /auth/quickbooks first."

\* --------------------------------------------------------- the retry loop

\* the Retry-After header is not read
HandleRateLimitDefaultDelay(response) ==
    IF response.status_code = 429
      THEN [should_retry |-> TRUE, retry_after |-> RATE_LIMIT_RETRY_DELAY, error |-> NoError]
      ELSE [should_retry |-> FALSE, retry_after |-> 0, error |-> NoError]

\* server errors are retried like rate limits
HandleRateLimitAndServerErrors(response) ==
    IF response.status_code = 429 \/ response.status_code >= 500
      THEN IF response.retry_after = NoHeader
             THEN [should_retry |-> TRUE, retry_after |-> RATE_LIMIT_RETRY_DELAY,
                   error |-> NoError]
           ELSE IF IsInt(response.retry_after)
             THEN [should_retry |-> TRUE, retry_after |-> IntOf(response.retry_after),
                   error |-> NoError]
             ELSE [should_retry |-> FALSE, retry_after |-> 0,
                   error |-> Error("ValueError", 0, response.retry_after)]
      ELSE [should_retry |-> FALSE, retry_after |-> 0, error |-> NoError]

\* QuickBooksService._handle_rate_limit: on a 429, int() of the Retry-After
\* header, or of RATE_LIMIT_RETRY_DELAY when the response has none
HandleRateLimit(response) ==
    IF response.status_code = 429
      THEN IF response.retry_after = NoHeader
             THEN [should_retry |-> TRUE, retry_after |-> RATE_LIMIT_RETRY_DELAY,
                   error |-> NoError]
           ELSE IF IsInt(response.retry_after)
             THEN [should_retry |-> TRUE, retry_after |-> IntOf(response.retry_after),
                   error |-> NoError]
             ELSE [should_retry |-> FALSE, retry_after |-> 0,
                   error |-> Error("ValueError", 0, response.retry_after)]
      ELSE [should_retry |-> FALSE, retry_after |-> 0, error |-> NoError]

\* the loop runs while retries <= RATE_LIMIT_MAX_RETRIES
LoopOneMore(retries, sleeps) ==
    IF retries <= RATE_LIMIT_MAX_RETRIES
      THEN [pc |-> "request", retries |-> retries, sleeps |-> sleeps,
            response |-> NoResponse, error |-> NoError]
      ELSE [pc |-> "raised", retries |-> retries, sleeps |-> sleeps,
            response |-> NoResponse,
            error |-> Error("ERROR_RATE_LIMIT", RATE_LIMIT_RETRY_DELAY, <<>>)]

\* the attempt that exhausts the retries is not followed by a sleep
LoopOrExhaustedAtOnce(retries, sleeps) ==
    IF retries < RATE_LIMIT_MAX_RETRIES
      THEN [pc |-> "request", retries |-> retries, sleeps |-> sleeps,
            response |-> NoResponse, error |-> NoError]
      ELSE [pc |-> "raised", retries |-> retries, sleeps |-> <<>>,
            response |-> NoResponse,
            error |-> Error("ERROR_RATE_LIMIT", RATE_LIMIT_RETRY_DELAY, <<>>)]

\* the loop of _make_request goes on, or is left because its condition fails
LoopOrExhausted(retries, sleeps) ==
    IF retries < RATE_LIMIT_MAX_RETRIES
      THEN [pc |-> "request", retries |-> retries, sleeps |-> sleeps,
            response |-> NoResponse, error |-> NoError]
      ELSE [pc |-> "raised", retries |-> retries, sleeps |-> sleeps,
            response |-> NoResponse,
            error |-> Error("ERROR_RATE_LIMIT", RATE_LIMIT_RETRY_DELAY, <<>>)]

\* the exception handler gives up when retries = RATE_LIMIT_MAX_RETRIES, which
\* the loop never enters with
MakeRequestAttemptLateGiveUp(retries, o) ==
    IF o.exc
      THEN IF retries = RATE_LIMIT_MAX_RETRIES
             THEN [pc |-> "raised", retries |-> retries, sleeps |-> <<>>,
                   response |-> NoResponse,
                   error |-> Error("ERROR_API_COMMUNICATION", 0, <<"RequestException">>)]
             ELSE LoopOrExhausted(retries + 1, <<RATE_LIMIT_RETRY_DELAY>>)
    ELSE IF HandleRateLimit(o).error # NoError
      THEN [pc |-> "raised", retries |-> retries, sleeps |-> <<>>,
            response |-> NoResponse, error |-> HandleRateLimit(o).error]
    ELSE IF HandleRateLimit(o).should_retry
      THEN LoopOrExhausted(retries + 1, <<HandleRateLimit(o).retry_after>>)
    ELSE IF o.status_code >= 500
      THEN [pc |-> "raised", retries |-> retries, sleeps |-> <<>>,
            response |-> NoResponse,
            error |-> Error("ERROR_SERVER_ERROR", o.status_code, <<>>)]
      ELSE [pc |-> "returned", retries |-> retries, sleeps |-> <<>>,
            response |-> o, error |-> NoError]

\* one pass through the body of the while loop of _make_request, entered with
\* `retries` < RATE_LIMIT_MAX_RETRIES, when the upstream does `o`; the
\* ValueError of int() is no RequestException, and leaves the loop
MakeRequestAttempt(retries, o) ==
    IF o.exc
      THEN IF retries = RATE_LIMIT_MAX_RETRIES - 1
             THEN [pc |-> "raised", retries |-> retries, sleeps |-> <<>>,
                   response |-> NoResponse,
                   error |-> Error("ERROR_API_COMMUNICATION", 0, <<"RequestException">>)]
             ELSE LoopOrExhausted(retries + 1, <<RATE_LIMIT_RETRY_DELAY>>)
    ELSE IF HandleRateLimit(o).error # NoError
      THEN [pc |-> "raised", retries |-> retries, sleeps |-> <<>>,
            response |-> NoResponse, error |-> HandleRateLimit(o).error]
    ELSE IF HandleRateLimit(o).should_retry
      THEN LoopOrExhausted(retries + 1, <<HandleRateLimit(o).retry_after>>)
    ELSE IF o.status_code >= 500
      THEN [pc |-> "raised", retries |-> retries, sleeps |-> <<>>,
            response |-> NoResponse,
            error |-> Error("ERROR_SERVER_ERROR", o.status_code, <<>>)]
      ELSE [pc |-> "returned", retries |-> retries, sleeps |-> <<>>,
            response |-> o, error |-> NoError]

\* ------------------------------------------------------------ the database

\* SELECT ... WHERE realm_id = realm
Select(table, realm) ==
    IF \E r \in table : r.realm_id = realm
      THEN CHOOSE r \in table : r.realm_id = realm
      ELSE NoRow

\* db.query(QuickBooksToken).filter(realm_id == realm).first()
First(realm) == Select(rows, realm)

\* realm_id is no key of the table
NoPrimaryKey(table, row) == TRUE

\* INSERT of a new object at commit; realm_id is the primary key, so the
\* insert of a second row with the same key fails (IntegrityError)
CanInsert(table, row) == \A r \in table : r.realm_id # row.realm_id
Insert(table, row) == table \cup {row}

\* the UPDATE takes the row out of the table and does not put it back
UpdateLosingRow(table, loaded, row) == {r \in table : r.realm_id # loaded.realm_id}

\* the UPDATE has no WHERE clause: the changed columns are written to every row
UpdateEveryRow(table, loaded, row) ==
    {[f \in DOMAIN r |-> IF row[f] # loaded[f] THEN row[f] ELSE r[f]] : r \in table}

\* the UPDATE is refused when the row is no longer the one that was loaded
UpdateIfUnchanged(table, loaded, row) ==
    IF loaded \in table
      THEN {r \in table : r.realm_id # loaded.realm_id} \cup {row}
      ELSE table

\* UPDATE ... WHERE realm_id = loaded.realm_id at commit, of an object that
\* was loaded from the table as `loaded` and whose attributes were set to those
\* of `row`: the unit of work writes the columns whose value changed
Update(table, loaded, row) ==
    {IF r.realm_id = loaded.realm_id
       THEN [f \in DOMAIN r |-> IF row[f] # loaded[f] THEN row[f] ELSE r[f]]
       ELSE r : r \in table}

\* ------------------------------------------------------------------- tasks

\* origin[r] remembers the operation that last committed realm r's row, the
\* tokens it was given and the time it took for created_at
Write(op, tokens, at) == [op |-> op, tokens |-> tokens, at |-> at]
NoWrite == Write("", NoToken, 0)

\* the arguments of an outbound call: the credential it presents (the
\* authorization code, the refresh token, the bearer token) and its body
Sent(credential, data) == [credential |-> credential, data |-> data]
NoSent == Sent("", <<>>)

\* name_prefix: Optional[str] = Query(None)
NoPrefix == <<"None">>

IdleTask ==
    [pc |-> "idle", handler |-> "", realm_id |-> "", name_prefix |-> NoPrefix,
     sent |-> NoSent,
     db_token |-> NoRow, existing_token |-> NoRow, tokens |-> NoToken,
     access_token |-> "None", call |-> "", retries |-> 0, hist |-> <<>>,
     slept |-> <<>>, response |-> NoResponse, error |-> NoError,
     refresh_calls |-> 0, result |-> NoResult]

Init ==
    /\ rows = {}
    /\ now = 0
    /\ task = [w \in Workers |-> IdleTask]
    /\ origin = [r \in Realms |-> NoWrite]

\* the task calls _make_request for `call`
Request(t, call, sent) ==
    [t EXCEPT !.pc = "request", !.call = call, !.sent = sent, !.retries = 0,
              !.hist = <<>>, !.slept = <<>>, !.response = NoResponse,
              !.error = NoError]

\* the handler ends with an HTTP response
Done(t, result) == [t EXCEPT !.pc = "done", !.result = result]

\* the clock advances
Tick ==
    /\ now < MaxTime
    /\ now' = now + 1
    /\ UNCHANGED <<rows, task, origin>>

\* a request arrives at worker q, whose event loop is free
Start(q, handler, realm, name_prefix) ==
    /\ task[q].pc = "idle"
    /\ handler = "callback" => name_prefix = NoPrefix
    /\ task' = [task EXCEPT ![q] =
          IF handler = "callback"
            THEN Request([IdleTask EXCEPT !.handler = handler,
                                          !.realm_id = realm],
                         "exchange", Sent("code", <<>>))
            ELSE [IdleTask EXCEPT !.pc = "get_valid_token", !.handler = handler,
                                  !.realm_id = realm,
                                  !.name_prefix = name_prefix]]
    /\ UNCHANGED <<rows, now, origin>>

\* one HTTP request of _make_request, with the sleep that follows it
Attempt(q, o) ==
    /\ task[q].pc = "request"
    /\ LET a == MakeRequestAttempt(task[q].retries, o) IN
         task' = [task EXCEPT ![q] =
            [@ EXCEPT !.pc = a.pc, !.retries = a.retries,
                      !.hist = Append(@, o), !.slept = @ \o a.sleeps,
                      !.response = a.response, !.error = a.error]]
    /\ UNCHANGED <<rows, now, origin>>

\* ---------------------------------------------------- the callback handler

AUTH_FAILED == "Authentication failed: "
AUTH_OK == "Successfully authenticated with QuickBooks"

\* the status of the token endpoint's answer is not looked at
RaiseForStatusSkipped(response) == NoError

\* response.raise_for_status(): requests.exceptions.HTTPError on 4xx and 5xx
RaiseForStatus(response) ==
    IF response.status_code >= 400
      THEN Error("HTTPError", response.status_code, <<>>)
      ELSE NoError

\* QuickBooksService.get_tokens returns to TokenService.handle_callback, which
\* goes on into store_tokens: the new object is built with created_at = utcnow()
\* and the realm's row is looked up.  Any exception ends in the handler's
\* `except Exception` (routes/auth.py)
GetTokensReturn(q) ==
    /\ task[q].pc \in {"returned", "raised"}
    /\ task[q].call = "exchange"
    /\ LET t == task[q]
           e == IF t.pc = "raised" THEN t.error ELSE RaiseForStatus(t.response)
       IN  task' = [task EXCEPT ![q] =
             IF e # NoError
               THEN Done(t, HttpResult(400, AUTH_FAILED, e, NoContent))
               ELSE [t EXCEPT !.pc = "store_commit",
                              !.tokens = t.response.json,
                              !.db_token = QuickBooksToken(t.realm_id, t.response.json, now),
                              !.existing_token = First(t.realm_id)]]
    /\ UNCHANGED <<rows, now, origin>>

\* an existing row is left as it was
StoreTokensInsertOnly(table, existing_token, db_token) ==
    IF existing_token # NoRow
      THEN [ok |-> TRUE, rows |-> table]
      ELSE IF CanInsert(table, db_token)
             THEN [ok |-> TRUE, rows |-> Insert(table, db_token)]
             ELSE [ok |-> FALSE, rows |-> table]

\* store_tokens: update if exists, insert if not; db.commit()
StoreTokens(table, existing_token, db_token) ==
    IF existing_token # NoRow
      THEN [ok |-> TRUE, rows |-> Update(table, existing_token, db_token)]
      ELSE IF CanInsert(table, db_token)
             THEN [ok |-> TRUE, rows |-> Insert(table, db_token)]
             ELSE [ok |-> FALSE, rows |-> table]

StoreCommit(q) ==
    /\ task[q].pc = "store_commit"
    /\ LET t == task[q]
           s == StoreTokens(rows, t.existing_token, t.db_token)
       IN  /\ rows' = s.rows
           /\ origin' = IF s.ok
                         THEN [origin EXCEPT ![t.realm_id] =
                                 Write("store_tokens", t.tokens, t.db_token.created_at)]
                         ELSE origin
           /\ task' = [task EXCEPT ![q] =
                 IF s.ok
                   THEN Done(t, HttpResult(200, AUTH_OK, NoError, <<"tokens">>))
                   ELSE Done(t, HttpResult(400, AUTH_FAILED,
                                           Error("IntegrityError", 0, <<>>), NoContent))]
    /\ UNCHANGED now

\* ---------------------------------------------------- the accounts handler

\* a token whose age equals its lifetime counts as expired
ExpiredAtLifetime(db_token, utcnow) == utcnow - db_token.created_at >= db_token.expires_in

\* TokenService.get_valid_token: token_age > timedelta(seconds=expires_in)
Expired(db_token, utcnow) == utcnow - db_token.created_at > db_token.expires_in

\* a row whose refresh token has outlived x_refresh_token_expires_in counts as
\* no row
GetValidTokenOfLiveRefreshToken(t, db_token, utcnow) ==
    IF db_token = NoRow
         \/ utcnow - db_token.created_at > db_token.x_refresh_token_expires_in
      THEN [t EXCEPT !.pc = "have_token", !.access_token = "None"]
    ELSE IF Expired(db_token, utcnow)
      THEN [Request(t, "refresh", Sent(db_token.refresh_token, <<>>)) EXCEPT
               !.db_token = db_token,
               !.refresh_calls = @ + 1]
      ELSE [t EXCEPT !.pc = "have_token", !.db_token = db_token,
                     !.access_token = db_token.access_token]

\* what get_valid_token does with the row it has loaded, at time utcnow: None
\* without a row, the refresh call with the row's refresh_token when the row is
\* stale, the row's access_token otherwise
GetValidTokenOf(t, db_token, utcnow) ==
    IF db_token = NoRow
      THEN [t EXCEPT !.pc = "have_token", !.access_token = "None"]
    ELSE IF Expired(db_token, utcnow)
      THEN [Request(t, "refresh", Sent(db_token.refresh_token, <<>>)) EXCEPT
               !.db_token = db_token,
               !.refresh_calls = @ + 1]
      ELSE [t EXCEPT !.pc = "have_token", !.db_token = db_token,
                     !.access_token = db_token.access_token]

\* TokenService.get_valid_token up to the refresh call or its return
GetValidToken(q) ==
    /\ task[q].pc = "get_valid_token"
    /\ task' = [task EXCEPT ![q] = GetValidTokenOf(task[q], First(task[q].realm_id), now)]
    /\ UNCHANGED <<rows, now, origin>>

\* a failed refresh stamps the row: created_at is set before the outcome of the
\* call is known
RefreshReturnStamping(q) ==
    /\ task[q].pc \in {"returned", "raised"}
    /\ task[q].call = "refresh"
    /\ LET t == task[q]
           e == IF t.pc = "raised" THEN t.error ELSE RaiseForStatus(t.response)
       IN  /\ task' = [task EXCEPT ![q] =
                 IF e # NoError
                   THEN [t EXCEPT !.pc = "have_token", !.access_token = "None", !.error = e]
                   ELSE [t EXCEPT !.pc = "refresh_commit", !.tokens = t.response.json]]
           /\ rows' = IF e # NoError
                        THEN Update(rows, t.db_token, [t.db_token EXCEPT !.created_at = now])
                        ELSE rows
    /\ UNCHANGED <<now, origin>>

\* QuickBooksService.refresh_tokens returns into get_valid_token's try block;
\* `except Exception` logs the failure and returns None
RefreshReturn(q) ==
    /\ task[q].pc \in {"returned", "raised"}
    /\ task[q].call = "refresh"
    /\ LET t == task[q]
           e == IF t.pc = "raised" THEN t.error ELSE RaiseForStatus(t.response)
       IN  task' = [task EXCEPT ![q] =
             IF e # NoError
               THEN [t EXCEPT !.pc = "have_token", !.access_token = "None", !.error = e]
               ELSE [t EXCEPT !.pc = "refresh_commit", !.tokens = t.response.json]]
    /\ UNCHANGED <<rows, now, origin>>

\* the refresh forgets to reset created_at
RefreshedKeepingCreatedAt(db_token, new_tokens, utcnow) ==
    [db_token EXCEPT !.access_token = new_tokens.access_token,
                     !.refresh_token = new_tokens.refresh_token,
                     !.token_type = new_tokens.token_type,
                     !.expires_in = new_tokens.expires_in,
                     !.x_refresh_token_expires_in = new_tokens.x_refresh_token_expires_in]

\* get_valid_token: the loaded row takes the new tokens and created_at =
\* utcnow()
Refreshed(db_token, new_tokens, utcnow) ==
    [db_token EXCEPT !.access_token = new_tokens.access_token,
                     !.refresh_token = new_tokens.refresh_token,
                     !.token_type = new_tokens.token_type,
                     !.expires_in = new_tokens.expires_in,
                     !.x_refresh_token_expires_in = new_tokens.x_refresh_token_expires_in,
                     !.created_at = utcnow]

\* db.commit() of the refreshed row, then return new_tokens.access_token: what
\* is returned is the token the upstream gave, not a column of the row; the
\* commit expires the object, which shows the row of the table from then on
RefreshCommit(q) ==
    /\ task[q].pc = "refresh_commit"
    /\ LET t == task[q]
           table == Update(rows, t.db_token, Refreshed(t.db_token, t.tokens, now))
           db_token == Select(table, t.realm_id)
       IN  /\ rows' = table
           /\ origin' = [origin EXCEPT ![t.realm_id] = Write("refresh", t.tokens, now)]
           /\ task' = [task EXCEPT ![q] =
                 [t EXCEPT !.pc = "have_token", !.db_token = db_token,
                           !.access_token = t.tokens.access_token]]
    /\ UNCHANGED now

\* the WHERE clause is added whenever a prefix was given, also an empty one
QueryOfGivenPrefix(name_prefix) ==
    IF name_prefix # NoPrefix
      THEN SQL_SELECT_ALL_ACCOUNTS \o Format(SQL_WHERE_NAME_LIKE, name_prefix)
      ELSE SQL_SELECT_ALL_ACCOUNTS

\* QuickBooksService.get_accounts builds the query: `if name_prefix:` is false
\* for None and for the empty string
QueryOf(name_prefix) ==
    IF name_prefix # NoPrefix /\ name_prefix # <<>>
      THEN SQL_SELECT_ALL_ACCOUNTS \o Format(SQL_WHERE_NAME_LIKE, name_prefix)
      ELSE SQL_SELECT_ALL_ACCOUNTS

\* the query is sent whatever get_valid_token returned
GetAccountsUnchecked(q) ==
    /\ task[q].pc = "have_token"
    /\ task' = [task EXCEPT ![q] =
          Request(task[q], "query",
                  Sent(task[q].access_token, QueryOf(task[q].name_prefix)))]
    /\ UNCHANGED <<rows, now, origin>>

\* AccountService.get_accounts after get_valid_token
GetAccounts(q) ==
    /\ task[q].pc = "have_token"
    /\ LET t == task[q] IN
         task' = [task EXCEPT ![q] =
           IF t.access_token = "None"
             THEN Done(t, HttpResult(400, NOT_AUTHENTICATED,
                                     Error("ValueError", 0, <<NOT_AUTHENTICATED>>), NoContent))
             ELSE Request(t, "query", Sent(t.access_token, QueryOf(t.name_prefix)))]
    /\ UNCHANGED <<rows, now, origin>>

\* only an empty body counts as blank
BlankUnstripped(text) == text = <<>>

\* response.text.strip() is empty
Blank(text) == Strip(text) = <<>>

\* response.json(): the body decodes when, but for the whitespace around it, it
\* is a JSON document; the document stands for the value it decodes to
JsonDocuments == {JSON_BODY}
Decodes(text) == Strip(text) \in JsonDocuments
JsonOf(text) == Strip(text)

EMPTY_ACCOUNTS == <<"{QueryResponse: {Account: []}}">>

\* QuickBooksClient.get_accounts, the client of app/api/quickbooks.py, on a
\* body that does not decode
RESPONSE_ERROR == <<"e", "r", "r", "o", "r">>
ClientUndecodable(response) ==
    IF Contains(Lower(response.text), RESPONSE_ERROR)
      THEN Error("QuickBooks API Error", 0, response.text)
      ELSE Error("ERROR_JSON_PARSE", 0, <<"JSONDecodeError">>)

\* the body is looked at before the status
AccountsOfBodyFirst(response) ==
    IF Blank(response.text)
      THEN [error |-> NoError, content |-> EMPTY_ACCOUNTS]
    ELSE IF response.status_code = 401
      THEN [error |-> Error("ERROR_UNAUTHORIZED", 0, <<>>), content |-> NoContent]
    ELSE IF response.status_code = 400
      THEN [error |-> Error("ERROR_BAD_REQUEST", 0, response.text), content |-> NoContent]
    ELSE IF response.status_code = 403
      THEN [error |-> Error("ERROR_FORBIDDEN", 0, <<>>), content |-> NoContent]
    ELSE IF Decodes(response.text)
      THEN [error |-> NoError, content |-> JsonOf(response.text)]
      ELSE [error |-> Error("ERROR_JSON_PARSE", 0, <<"JSONDecodeError">>), content |-> NoContent]

\* QuickBooksService.get_accounts on the response of _make_request
AccountsOf(response) ==
    IF response.status_code = 401
      THEN [error |-> Error("ERROR_UNAUTHORIZED", 0, <<>>), content |-> NoContent]
    ELSE IF response.status_code = 400
      THEN [error |-> Error("ERROR_BAD_REQUEST", 0, response.text), content |-> NoContent]
    ELSE IF response.status_code = 403
      THEN [error |-> Error("ERROR_FORBIDDEN", 0, <<>>), content |-> NoContent]
    ELSE IF Blank(response.text)
      THEN [error |-> NoError, content |-> EMPTY_ACCOUNTS]
    ELSE IF Decodes(response.text)
      THEN [error |-> NoError, content |-> JsonOf(response.text)]
      ELSE [error |-> Error("ERROR_JSON_PARSE", 0, <<"JSONDecodeError">>), content |-> NoContent]

\* a query that fails discards what its request has written: the realm's row,
\* if the request refreshed it, is gone
QueryReturnRollingBack(q) ==
    /\ task[q].pc \in {"returned", "raised"}
    /\ task[q].call = "query"
    /\ LET t == task[q]
           a == IF t.pc = "raised" THEN [error |-> t.error, content |-> NoContent]
                                   ELSE AccountsOf(t.response)
       IN  /\ task' = [task EXCEPT ![q] =
                 IF a.error # NoError
                   THEN Done(t, HttpResult(400, a.error.msg, a.error, NoContent))
                   ELSE Done(t, HttpResult(200, "", NoError, a.content))]
           /\ rows' = IF a.error # NoError /\ t.refresh_calls > 0
                        THEN {r \in rows : r.realm_id # t.realm_id}
                        ELSE rows
    /\ UNCHANGED <<now, origin>>

\* the query returns: AccountService turns every exception into ValueError(str(e)),
\* the route answers 400 with it
QueryReturn(q) ==
    /\ task[q].pc \in {"returned", "raised"}
    /\ task[q].call = "query"
    /\ LET t == task[q]
           a == IF t.pc = "raised" THEN [error |-> t.error, content |-> NoContent]
                                   ELSE AccountsOf(t.response)
       IN  task' = [task EXCEPT ![q] =
             IF a.error # NoError
               THEN Done(t, HttpResult(400, a.error.msg, a.error, NoContent))
               ELSE Done(t, HttpResult(200, "", NoError, a.content))]
    /\ UNCHANGED <<rows, now, origin>>

\* the response is sent and the worker's event loop is free again
Respond(q) ==
    /\ task[q].pc = "done"
    /\ task' = [task EXCEPT ![q] = IdleTask]
    /\ UNCHANGED <<rows, now, origin>>

\* ----------------------------------------------------------- specifications

Handlers == {"callback", "accounts"}

\* one worker process, as app/main.py runs the service
Main == {"w1"}

Next ==
    \/ Tick
    \/ \E q \in Main, h \in Handlers, r \in Realms : Start(q, h, r, NoPrefix)
    \/ \E q \in Main : \E o \in Outcomes(task[q].call) : Attempt(q, o)
    \/ \E q \in Main : GetTokensReturn(q)
    \/ \E q \in Main : StoreCommit(q)
    \/ \E q \in Main : GetValidToken(q)
    \/ \E q \in Main : RefreshReturn(q)
    \/ \E q \in Main : RefreshCommit(q)
    \/ \E q \in Main : GetAccounts(q)
    \/ \E q \in Main : QueryReturn(q)
    \/ \E q \in Main : Respond(q)

Spec == Init /\ [][Next]_vars

\* several worker processes on one database, serving requests for the same
\* tenant against an upstream that neither throttles nor drops connections
Contended == {"r1"}

NextWorkers ==
    \/ Tick
    \/ \E q \in Workers, h \in Handlers, r \in Contended : Start(q, h, r, NoPrefix)
    \/ \E q \in Workers : \E o \in SteadyOutcomes(task[q].call) : Attempt(q, o)
    \/ \E q \in Workers : GetTokensReturn(q)
    \/ \E q \in Workers : StoreCommit(q)
    \/ \E q \in Workers : GetValidToken(q)
    \/ \E q \in Workers : RefreshReturn(q)
    \/ \E q \in Workers : RefreshCommit(q)
    \/ \E q \in Workers : GetAccounts(q)
    \/ \E q \in Workers : QueryReturn(q)
    \/ \E q \in Workers : Respond(q)

SpecWorkers == Init /\ [][NextWorkers]_vars

\* the name prefixes of the accounts requests: none, the empty one, "Ca"
Prefixes == {NoPrefix, <<>>, <<"C", "a">>}

\* one worker process serving one tenant; every HTTP request that was sent gets
\* its outcome (an answer or a connection failure) and every sleep ends
NextCalls ==
    \/ Tick
    \/ \E q \in Main, h \in Handlers, r \in Contended, p \in Prefixes :
          Start(q, h, r, p)
    \/ \E q \in Main : \E o \in Outcomes(task[q].call) : Attempt(q, o)
    \/ \E q \in Main : GetTokensReturn(q)
    \/ \E q \in Main : StoreCommit(q)
    \/ \E q \in Main : GetValidToken(q)
    \/ \E q \in Main : RefreshReturn(q)
    \/ \E q \in Main : RefreshCommit(q)
    \/ \E q \in Main : GetAccounts(q)
    \/ \E q \in Main : QueryReturn(q)
    \/ \E q \in Main : Respond(q)

SpecCalls ==
    /\ Init
    /\ [][NextCalls]_vars
    /\ \A q \in Main : WF_vars(\E o \in Outcomes(task[q].call) : Attempt(q, o))

\* ------------------------------------------------------------------ claims

\* the rows of a realm
RowsOf(table, realm) == {r \in table : r.realm_id = realm}

\* worker q takes a step
Steps(q) == task'[q] # task[q]

\* C1: when the realm's stored row satisfies now - created_at <= expires_in,
\* get_valid_token returns the stored access_token, calls no upstream
\* operation and leaves the table as it is.
C1_FreshTokenReused ==
    [][\A q \in Workers :
         LET t == task[q]
             row == First(t.realm_id)
         IN  (/\ t.pc = "get_valid_token"
              /\ row # NoRow
              /\ now - row.created_at <= row.expires_in
              /\ Steps(q))
               => /\ task'[q].pc = "have_token"
                  /\ task'[q].access_token = row.access_token
                  /\ task'[q].call = ""
                  /\ task'[q].refresh_calls = 0
                  /\ rows' = rows]_vars

\* get_valid_token has returned the access_token of a row that is still fresh
C1_Witness ==
    \E q \in Workers :
        /\ task[q].pc = "have_token"
        /\ task[q].db_token # NoRow
        /\ now - task[q].db_token.created_at = task[q].db_token.expires_in
        /\ task[q].access_token = task[q].db_token.access_token
        /\ task[q].refresh_calls = 0

\* C2: when the realm's stored row satisfies now - created_at > expires_in, one
\* call of get_valid_token calls refresh_tokens exactly once; when the refresh
\* succeeds, the row's five token fields become the refreshed values,
\* created_at becomes the time of the commit, and the new access_token is
\* returned.
C2_StaleTokenRefreshed ==
    /\ [](\A q \in Workers :
            /\ task[q].refresh_calls <= 1
            /\ (task[q].call = "refresh" \/ task[q].pc = "refresh_commit")
                 => task[q].refresh_calls = 1)
    /\ [][\A q \in Workers :
            LET t == task[q]
                row == First(t.realm_id)
            IN  /\ (/\ t.pc = "get_valid_token"
                    /\ row # NoRow
                    /\ now - row.created_at > row.expires_in
                    /\ Steps(q))
                     => /\ task'[q].pc = "request"
                        /\ task'[q].call = "refresh"
                        /\ task'[q].refresh_calls = 1
                /\ (/\ t.pc = "returned"
                    /\ t.call = "refresh"
                    /\ t.response.status_code < 400
                    /\ Steps(q))
                     => /\ task'[q].pc = "refresh_commit"
                        /\ task'[q].tokens = t.response.json
                        /\ rows' = rows
                /\ (t.pc = "refresh_commit" /\ Steps(q))
                     => /\ RowsOf(rows', t.realm_id)
                             = {QuickBooksToken(t.realm_id, t.tokens, now)}
                        /\ task'[q].pc = "have_token"
                        /\ task'[q].access_token = t.tokens.access_token
                        /\ task'[q].refresh_calls = 1]_vars

\* get_valid_token has refreshed a stale row and returned: the row holds the
\* new tokens and the time of the commit, later than the row was created
C2_Witness ==
    \E q \in Workers :
        /\ task[q].pc = "have_token"
        /\ task[q].refresh_calls = 1
        /\ task[q].tokens # NoToken
        /\ task[q].access_token = task[q].tokens.access_token
        /\ origin[task[q].realm_id] = Write("refresh", task[q].tokens, now)
        /\ RowsOf(rows, task[q].realm_id)
             = {QuickBooksToken(task[q].realm_id, task[q].tokens, now)}
        /\ now > 1

\* C3: when the refresh of a stale token fails, get_valid_token signals a
\* failure that carries the cause and differs from the one for a missing
\* record, and does not return the stale access_token.
C3_RefreshFailureSignalled ==
    \A q \in Workers :
        LET t == task[q] IN
        (/\ t.pc \in {"have_token", "done"}
         /\ t.refresh_calls = 1
         /\ t.tokens = NoToken)
          => /\ t.access_token # t.db_token.access_token
             /\ t.access_token # "None"
             /\ t.pc = "done" => /\ t.result.detail # NOT_AUTHENTICATED
                                 /\ t.result.cause = t.error

\* C4: for a realm with no row, get_valid_token returns None without calling the
\* upstream and without creating a row, and get_accounts answers that the
\* caller must authenticate first.
C4_NoRecordNotAuthenticated ==
    [][\A q \in Workers :
         LET t == task[q] IN
         (t.handler = "accounts" /\ First(t.realm_id) = NoRow /\ Steps(q))
           => /\ rows' = rows
              /\ task'[q].call = ""
              /\ task'[q].hist = <<>>
              /\ task'[q].refresh_calls = 0
              /\ task'[q].access_token = "None"
              /\ t.pc = "get_valid_token" => task'[q].pc = "have_token"
              /\ t.pc = "have_token"
                   => /\ task'[q].pc = "done"
                      /\ task'[q].result =
                           HttpResult(400, NOT_AUTHENTICATED,
                                      Error("ValueError", 0, <<NOT_AUTHENTICATED>>), NoContent)]_vars

\* the accounts handler has answered a request for a realm without a row
C4_Witness ==
    \E q \in Workers :
        /\ task[q].handler = "accounts"
        /\ task[q].pc = "done"
        /\ First(task[q].realm_id) = NoRow
        /\ task[q].result.detail = NOT_AUTHENTICATED
        /\ rows # {}

\* the outbound call of worker q is under way or has just ended
InCall(q) == task[q].pc \in {"request", "returned", "raised"}

C6_ServerErrorFatal ==
    \A q \in Workers :
        LET t == task[q] IN
        InCall(q) =>
          \A i \in 1..Len(t.hist) :
              t.hist[i].status_code >= 500
                => /\ i = Len(t.hist)
                   /\ t.pc = "raised"
                   /\ t.error = Error("ERROR_SERVER_ERROR", t.hist[i].status_code, <<>>)
                   /\ Len(t.slept) = i - 1

\* a call has failed on a 503 that came after two retried attempts
C6_Witness ==
    \E q \in Workers :
        /\ task[q].pc = "raised"
        /\ Len(task[q].hist) = 3
        /\ task[q].hist[3].status_code = 503
        /\ task[q].error.msg = "ERROR_SERVER_ERROR"
        /\ Len(task[q].slept) = 2

\* C7: after a network exception that is not on the final (third) attempt the
\* call sleeps RATE_LIMIT_RETRY_DELAY and goes on; on the final attempt it fails
\* with the communication error, so three network exceptions in a row end the
\* call with that error after exactly three requests.
C7_NetworkErrorRetry ==
    \A q \in Workers :
        LET t == task[q] IN
        InCall(q) =>
          \A i \in 1..Len(t.hist) :
              t.hist[i].exc
                => IF i = RATE_LIMIT_MAX_RETRIES
                     THEN /\ Len(t.hist) = i
                          /\ t.pc = "raised"
                          /\ t.error.msg = "ERROR_API_COMMUNICATION"
                          /\ Len(t.slept) = i - 1
                     ELSE /\ Len(t.slept) >= i
                          /\ t.slept[i] = RATE_LIMIT_RETRY_DELAY
                          /\ i = Len(t.hist) => t.pc = "request"

\* a call has failed after three network exceptions in a row
C7_Witness ==
    \E q \in Workers :
        /\ task[q].pc = "raised"
        /\ Len(task[q].hist) = 3
        /\ \A i \in 1..3 : task[q].hist[i].exc
        /\ task[q].error.msg = "ERROR_API_COMMUNICATION"
        /\ task[q].slept = <<RATE_LIMIT_RETRY_DELAY, RATE_LIMIT_RETRY_DELAY>>

\* C8: in every reachable state, whatever callbacks and refreshes the workers
\* interleave, the table holds at most one row per realm_id.
C8_OneRowPerRealm ==
    \A r1 \in rows : \A r2 \in rows : r1.realm_id = r2.realm_id => r1 = r2

\* two callbacks for a new realm raced: one inserted the row, the other's
\* insert was refused
C8_Witness ==
    \E q \in Workers :
        /\ task[q].pc = "done"
        /\ task[q].result.cause.msg = "IntegrityError"
        /\ Cardinality(RowsOf(rows, task[q].realm_id)) = 1

\* C9: after store_tokens for a realm, also one that had a row already, the
\* realm has exactly one row, made of the tokens of this call and of the time
\* at which this call was made.
C9_StoreOverwrites ==
    /\ [](\A q \in Workers :
            LET t == task[q] IN
            (t.handler = "callback" /\ t.pc = "done" /\ t.result.status_code = 200)
              => /\ RowsOf(rows, t.realm_id)
                      = {QuickBooksToken(t.realm_id, t.tokens, t.db_token.created_at)}
                 /\ t.tokens = t.response.json)
    /\ [][\A q \in Workers :
            (task[q].pc = "returned" /\ task'[q].pc = "store_commit")
              => task'[q].db_token.created_at = now]_vars

\* the second store_tokens for a realm has replaced a row that held other
\* tokens and an earlier time
C9_Witness ==
    \E q \in Workers :
        /\ task[q].handler = "callback"
        /\ task[q].pc = "done"
        /\ task[q].result.status_code = 200
        /\ task[q].existing_token # NoRow
        /\ task[q].existing_token.access_token # task[q].tokens.access_token
        /\ task[q].existing_token.created_at < task[q].db_token.created_at
        /\ RowsOf(rows, task[q].realm_id)
             = {QuickBooksToken(task[q].realm_id, task[q].tokens, now)}

\* C10: when the realm's row was last written by store_tokens with tokens T and
\* T's lifetime has not passed since, get_valid_token returns T.access_token
\* and calls no refresh.
C10_StoreThenGet ==
    [][\A q \in Workers :
         LET t == task[q]
             w == origin[t.realm_id]
         IN  (/\ t.pc = "get_valid_token"
              /\ w.op = "store_tokens"
              /\ now - w.at <= w.tokens.expires_in
              /\ Steps(q))
               => /\ task'[q].pc = "have_token"
                  /\ task'[q].access_token = w.tokens.access_token
                  /\ task'[q].call = ""
                  /\ task'[q].refresh_calls = 0]_vars

\* get_valid_token has returned the access_token that store_tokens was given
C10_Witness ==
    \E q \in Workers :
        /\ task[q].pc = "have_token"
        /\ origin[task[q].realm_id].op = "store_tokens"
        /\ task[q].access_token = origin[task[q].realm_id].tokens.access_token
        /\ task[q].refresh_calls = 0
        /\ now > origin[task[q].realm_id].at

\* the columns an OAuth response fills
TokenColumns ==
    {"access_token", "refresh_token", "token_type", "expires_in", "x_refresh_token_expires_in"}

\* another worker has invoked the refresh for q's realm and not yet committed it
RefreshInFlight(q) ==
    \E p \in Workers \ {q} :
        /\ task[p].realm_id = task[q].realm_id
        /\ task[p].call = "refresh"
        /\ task[p].pc \in {"request", "returned", "refresh_commit"}

\* C11: nothing makes the refresh of a stale token at-most-once. A request that
\* finds the record stale while another request for the same tenant is already
\* refreshing it invokes the refresh as well, and each of them writes the record
\* when its refresh has succeeded, whatever was written since it loaded the
\* record: the later write overrides the earlier one.
C11_RefreshNotAtMostOnce ==
    [][\A q \in Workers :
         LET t == task[q]
             db_token == First(t.realm_id)
         IN  /\ (/\ t.pc = "get_valid_token"
                 /\ Steps(q)
                 /\ db_token # NoRow
                 /\ now - db_token.created_at > db_token.expires_in
                 /\ RefreshInFlight(q))
                  => /\ task'[q].call = "refresh"
                     /\ task'[q].pc = "request"
                     /\ task'[q].refresh_calls = t.refresh_calls + 1
             /\ (t.pc = "refresh_commit" /\ Steps(q))
                  => LET written == CHOOSE r \in rows' : r.realm_id = t.realm_id
                     IN  /\ \A f \in TokenColumns :
                               t.tokens[f] # t.db_token[f] => written[f] = t.tokens[f]
                         /\ written.created_at = now
                         /\ task'[q].access_token = t.tokens.access_token]_vars

\* two requests refreshed the same stale record: each got tokens from the
\* upstream, the first returned its own, and the record holds the second's
C11_Witness ==
    \E p, q \in Workers :
        /\ p # q
        /\ task[p].realm_id = task[q].realm_id
        /\ task[p].pc = "have_token" /\ task[q].pc = "have_token"
        /\ task[p].call = "refresh" /\ task[q].call = "refresh"
        /\ task[p].refresh_calls = 1 /\ task[q].refresh_calls = 1
        /\ task[p].tokens \in Tokens /\ task[q].tokens \in Tokens
        /\ task[p].tokens # task[q].tokens
        /\ task[p].access_token = task[p].tokens.access_token
        /\ First(task[q].realm_id).access_token = task[q].tokens.access_token

\* C12: an outbound call and its backoff sleep block only the request that
\* makes them: while a request is inside one, the worker that handles it can
\* take up a request for another tenant.
C12_CallBlocksOnlyItsTask ==
    \A q \in Main :
        task[q].pc = "request"
          => ENABLED (\E h \in Handlers, r \in Realms \ {task[q].realm_id} :
                         Start(q, h, r, NoPrefix))

\* C13 as it is stated: when now - created_at is exactly expires_in,
\* get_valid_token treats the stored token as stale and invokes the refresh.
C13_StaleAtLifetime ==
    [][\A q \in Workers :
         LET t == task[q]
             row == First(t.realm_id)
         IN  (/\ t.pc = "get_valid_token"
              /\ row # NoRow
              /\ now - row.created_at = row.expires_in
              /\ Steps(q))
               => /\ task'[q].call = "refresh"
                  /\ task'[q].refresh_calls = t.refresh_calls + 1]_vars

\* C13: when now - created_at is exactly expires_in, get_valid_token treats the
\* stored token as still valid: it returns the stored access_token and does not
\* invoke the refresh.
C13_ValidAtLifetime ==
    [][\A q \in Workers :
         LET t == task[q]
             row == First(t.realm_id)
         IN  (/\ t.pc = "get_valid_token"
              /\ row # NoRow
              /\ now - row.created_at = row.expires_in
              /\ Steps(q))
               => /\ task'[q].pc = "have_token"
                  /\ task'[q].access_token = row.access_token
                  /\ task'[q].call # "refresh"
                  /\ task'[q].refresh_calls = t.refresh_calls]_vars

\* a token with a lifetime of 2 was stored at time 0 and is handed out at time 2
\* without a refresh
C13_Witness ==
    \E q \in Workers :
        /\ task[q].pc = "have_token"
        /\ First(task[q].realm_id) = task[q].db_token
        /\ task[q].db_token.created_at = 0
        /\ task[q].db_token.expires_in = 2
        /\ now - task[q].db_token.created_at = task[q].db_token.expires_in
        /\ task[q].access_token = task[q].db_token.access_token
        /\ task[q].call = ""

\* C14: on a 429 response the outbound call sleeps for the number of seconds the
\* Retry-After header gives (10 for "10"), or for 1 second when the response
\* has no such header, and the 429 uses up one of the RATE_LIMIT_MAX_RETRIES
\* attempts: the third attempt that ends in a 429 is the last.
C14_RetryAfterSleep ==
    \A q \in Workers :
        LET t == task[q] IN
        InCall(q) =>
          \A i \in 1..Len(t.hist) :
              (t.hist[i].status_code = 429 /\ t.hist[i].retry_after \in {NoHeader, <<"1", "0">>})
                => /\ Len(t.slept) >= i
                   /\ t.slept[i] = IF t.hist[i].retry_after = NoHeader THEN 1 ELSE 10
                   /\ t.retries >= i
                   /\ i = Len(t.hist) => t.retries = i
                   /\ i = 3 => /\ Len(t.hist) = i
                               /\ t.pc = "raised"
                   /\ (i < 3 /\ i = Len(t.hist)) => t.pc = "request"

\* a call slept ten seconds after a 429 that said so and one second after a 429
\* that said nothing, and is about to make its third attempt
C14_Witness ==
    \E q \in Workers :
        /\ task[q].pc = "request"
        /\ Len(task[q].hist) = 2
        /\ task[q].hist[1].status_code = 429
        /\ task[q].hist[1].retry_after = <<"1", "0">>
        /\ task[q].hist[2].status_code = 429
        /\ task[q].hist[2].retry_after = NoHeader
        /\ task[q].slept = <<10, 1>>
        /\ task[q].retries = 2

\* C15: whatever the upstream does, one outbound call sends at most three HTTP
\* requests, and a call that was begun ends: it returns a response or raises an
\* error.
C15_CallTerminates ==
    /\ [](\A q \in Workers :
            LET t == task[q] IN
            /\ Len(t.hist) <= 3
            /\ t.pc = "request" => Len(t.hist) < 3
            /\ t.pc = "returned" => (t.response = t.hist[Len(t.hist)] /\ t.error = NoError)
            /\ t.pc = "raised" => (t.response = NoResponse /\ t.error # NoError))
    /\ \A q \in Main : (task[q].pc = "request") ~> (task[q].pc \in {"returned", "raised"})

\* a call has ended at its third request: a connection failure, a 429, and a
\* 429 whose Retry-After int() does not take
C15_Witness ==
    \E q \in Workers :
        /\ task[q].pc = "raised"
        /\ Len(task[q].hist) = 3
        /\ task[q].hist[1].exc
        /\ task[q].hist[2].status_code = 429
        /\ task[q].hist[3].status_code = 429
        /\ task[q].error.msg = "ValueError"
        /\ Len(task[q].slept) = 2

\* C16: when the query is answered with a body that is not blank and does not
\* decode as JSON, the request fails: with the upstream error that carries the
\* raw body when the body contains "error" in whatever case, with the parse
\* error otherwise.
C16_UndecodableBody ==
    \A q \in Workers :
        LET t == task[q] IN
        (/\ t.pc = "done"
         /\ t.call = "query"
         /\ t.response # NoResponse
         /\ t.response.status_code \notin {400, 401, 403}
         /\ \E i \in 1..Len(t.response.text) : t.response.text[i] \notin Whitespace
         /\ Strip(t.response.text) \notin JsonDocuments)
          => /\ t.result.status_code = 400
             /\ t.result.content = NoContent
             /\ IF Contains(Lower(t.response.text), <<"e", "r", "r", "o", "r">>)
                  THEN t.result.cause = Error("QuickBooks API Error", 0, t.response.text)
                  ELSE t.result.cause.msg = "ERROR_JSON_PARSE"

\* C17: a query answered with 401 fails as unauthorized, with 400 as a bad
\* request that carries the body, with 403 as forbidden; the status is looked
\* at before the body, so such an answer with an empty body is a failure too
\* and never the empty account list.
C17_StatusBeforeBody ==
    \A q \in Workers :
        LET t == task[q] IN
        (/\ t.pc = "done"
         /\ t.call = "query"
         /\ t.response.status_code \in {400, 401, 403})
          => /\ t.result.status_code = 400
             /\ t.result.content = NoContent
             /\ t.response.status_code = 401
                  => t.result.cause = Error("ERROR_UNAUTHORIZED", 0, <<>>)
             /\ t.response.status_code = 400
                  => t.result.cause = Error("ERROR_BAD_REQUEST", 0, t.response.text)
             /\ t.response.status_code = 403
                  => t.result.cause = Error("ERROR_FORBIDDEN", 0, <<>>)

\* a 403 with an empty body has been answered as forbidden
C17_Witness ==
    \E q \in Workers :
        /\ task[q].pc = "done"
        /\ task[q].call = "query"
        /\ task[q].response.status_code = 403
        /\ task[q].response.text = <<>>
        /\ task[q].result.cause.msg = "ERROR_FORBIDDEN"
        /\ task[q].result.content = NoContent

\* C18: a query answered with success and a body that is empty or holds only
\* whitespace returns the synthetic payload with an empty account list; answered
\* with a body that decodes, it returns the decoded payload as it is.
C18_EmptyBodyIsNoAccounts ==
    \A q \in Workers :
        LET t == task[q] IN
        (/\ t.pc = "done"
         /\ t.call = "query"
         /\ t.response.status_code = 200)
          => /\ (\A i \in 1..Len(t.response.text) : t.response.text[i] \in {" ", "\t", "\n"})
                  => t.result = HttpResult(200, "", NoError, EMPTY_ACCOUNTS)
             /\ t.response.text = JSON_BODY
                  => t.result = HttpResult(200, "", NoError, JSON_BODY)

\* a 200 whose body is a blank and a newline has been answered with the empty
\* account list
C18_Witness ==
    \E q \in Workers :
        /\ task[q].pc = "done"
        /\ task[q].call = "query"
        /\ task[q].response.status_code = 200
        /\ task[q].response.text = <<" ", "\n">>
        /\ task[q].result.status_code = 200
        /\ task[q].result.content = EMPTY_ACCOUNTS

\* C19: GET /accounts answers every failure of the domain (no token, a failed
\* refresh, a refused, throttled, failed or undecodable query) with HTTP 400
\* whose detail is the message of that failure, and never with 500; an answer is
\* a payload or an error, never both.
C19_FailuresAnswered400 ==
    \A q \in Workers :
        LET t == task[q] IN
        (t.pc = "done" /\ t.handler = "accounts")
          => /\ t.result.status_code \in {200, 400}
             /\ t.result.status_code = 200
                  => /\ t.result.cause = NoError
                     /\ t.result.content # NoContent
                     /\ t.error = NoError
             /\ t.result.status_code = 400
                  => /\ t.result.cause # NoError
                     /\ t.result.content = NoContent
             /\ t.error # NoError
                  => /\ t.result.status_code = 400
                     /\ t.result.detail = t.error.msg
             /\ (t.call = "" /\ t.db_token = NoRow)
                  => /\ t.result.status_code = 400
                     /\ t.result.detail = NOT_AUTHENTICATED

\* C20: when the exchange of the authorization code fails (the token endpoint
\* refuses it, or the call gives up on rate limits, a server error or a
\* connection failure), the callback answers HTTP 400 'Authentication failed:
\* <cause>' and no row is created or changed; a realm's row is first created
\* only by a callback whose exchange succeeded.
C20_FailedExchangeStoresNothing ==
    /\ [](\A q \in Workers :
            LET t == task[q] IN
            (/\ t.pc = "done"
             /\ t.handler = "callback"
             /\ (t.error # NoError \/ t.response.status_code >= 300))
              => /\ t.result.status_code = 400
                 /\ t.result.detail = "Authentication failed: "
                 /\ t.result.cause = IF t.error # NoError
                                       THEN t.error
                                       ELSE Error("HTTPError", t.response.status_code, <<>>)
                 /\ t.result.content = NoContent)
    /\ [][/\ \A q \in Workers :
               (/\ task[q].handler = "callback"
                /\ Steps(q)
                /\ (task[q].pc = "store_commit" => task[q].response.status_code # 200))
                 => rows' = rows
          /\ \A r \in Realms :
               (RowsOf(rows, r) = {} /\ RowsOf(rows', r) # {})
                 => \E q \in Workers :
                       /\ task[q].handler = "callback"
                       /\ task[q].realm_id = r
                       /\ task[q].response.status_code = 200
                       /\ task[q].response.json \in Tokens
                       /\ task[q].error = NoError
                       /\ task'[q].result.status_code = 200
                       /\ RowsOf(rows', r) =
                            {QuickBooksToken(r, task[q].response.json,
                                             task[q].db_token.created_at)}]_vars

\* the token endpoint refused the code of a callback for a realm that has a
\* row: the callback answered 400 and the row is the one that was stored before
C20_Witness ==
    \E q \in Workers :
        /\ task[q].pc = "done"
        /\ task[q].handler = "callback"
        /\ task[q].response.status_code = 400
        /\ task[q].result.status_code = 400
        /\ task[q].result.cause = Error("HTTPError", 400, <<>>)
        /\ RowsOf(rows, task[q].realm_id) =
             {QuickBooksToken(task[q].realm_id, origin[task[q].realm_id].tokens,
                              origin[task[q].realm_id].at)}

\* C21: once a realm has a row, it has a row in every later state: no step of a
\* callback or of an accounts request (token lookup, refresh that succeeds or
\* fails, query) deletes it.
C21_RecordNeverDeleted ==
    [][\A r \in Realms : RowsOf(rows, r) # {} => RowsOf(rows', r) # {}]_vars

\* the realm's row was stored and refreshed, a later callback for the realm
\* failed on the connection, and the realm still has its row
C21_Witness ==
    \E q \in Workers :
        /\ task[q].pc = "done"
        /\ task[q].handler = "callback"
        /\ task[q].result.status_code = 400
        /\ task[q].error.msg = "ERROR_API_COMMUNICATION"
        /\ RowsOf(rows, task[q].realm_id) # {}
        /\ origin[task[q].realm_id].op = "refresh"

\* the row with another lifetime of its refresh token, and a task without the
\* lifetime of the row it has loaded
WithRefreshLifetime(row, x) == [row EXCEPT !.x_refresh_token_expires_in = x]
WithoutRefreshLifetime(t) == [t EXCEPT !.db_token.x_refresh_token_expires_in = 0]

\* C22: the lifetime of the refresh token is never enforced. Had the row that
\* get_valid_token loads any other x_refresh_token_expires_in (one the refresh
\* token has outlived, or one it has not), get_valid_token would take the same
\* decision, send the same refresh request and return the same value, and the
\* commit of the refresh would leave the same table.
C22_RefreshLifetimeNotEnforced ==
    [][\A q \in Workers :
         LET t == task[q]
             row == First(t.realm_id)
         IN  /\ (t.pc = "get_valid_token" /\ Steps(q) /\ row # NoRow)
                  => \A x \in {0, 1, 6} :
                        WithoutRefreshLifetime(
                            GetValidTokenOf(t, WithRefreshLifetime(row, x), now))
                          = WithoutRefreshLifetime(task'[q])
             /\ (t.pc = "refresh_commit" /\ Steps(q))
                  => \A x \in {0, 1, 6} :
                        LET loaded == WithRefreshLifetime(t.db_token, x)
                            table == {IF r.realm_id = t.realm_id
                                        THEN WithRefreshLifetime(r, x)
                                        ELSE r : r \in rows}
                        IN  Update(table, loaded, Refreshed(loaded, t.tokens, now))
                              = rows']_vars

\* a refresh token that had outlived its lifetime was sent to the token
\* endpoint, which answered with new tokens
C22_Witness ==
    \E q \in Workers :
        /\ task[q].pc = "refresh_commit"
        /\ now - task[q].db_token.created_at > task[q].db_token.x_refresh_token_expires_in
        /\ task[q].sent.credential = task[q].db_token.refresh_token
        /\ task[q].tokens \in Tokens

\* C23 as it is stated: the query that is sent for a request with a name prefix
\* P is SELECT * FROM Account followed by WHERE Name LIKE 'P%', whatever P is;
\* for a request without a prefix it is SELECT * FROM Account and no more.
C23_QueryOfPrefix ==
    \A q \in Workers :
        LET t == task[q] IN
        (t.call = "query" /\ t.pc = "request")
          => t.sent.data =
               IF t.name_prefix = NoPrefix
                 THEN SQL_SELECT_ALL_ACCOUNTS
                 ELSE SQL_SELECT_ALL_ACCOUNTS
                        \o <<" ", "W", "H", "E", "R", "E", " ", "N", "a", "m", "e", " ",
                             "L", "I", "K", "E", " ", "'">>
                        \o t.name_prefix \o <<"%", "'">>

\* C23: the query that is sent for a request with a name prefix P that is not
\* empty is SELECT * FROM Account followed by WHERE Name LIKE 'P%'; for a
\* request without a prefix, or with the empty prefix, it is SELECT * FROM
\* Account and no more.
C23_QueryOfNonEmptyPrefix ==
    \A q \in Workers :
        LET t == task[q] IN
        (t.call = "query" /\ t.pc = "request")
          => t.sent.data =
               IF t.name_prefix = NoPrefix \/ Len(t.name_prefix) = 0
                 THEN <<"S", "E", "L", "E", "C", "T", " ", "*", " ", "F", "R", "O", "M",
                        " ", "A", "c", "c", "o", "u", "n", "t">>
                 ELSE <<"S", "E", "L", "E", "C", "T", " ", "*", " ", "F", "R", "O", "M",
                        " ", "A", "c", "c", "o", "u", "n", "t">>
                        \o <<" ", "W", "H", "E", "R", "E", " ", "N", "a", "m", "e", " ",
                             "L", "I", "K", "E", " ", "'">>
                        \o t.name_prefix \o <<"%", "'">>

\* the query for the prefix Ca is on its way
C23_Witness ==
    \E q \in Workers :
        /\ task[q].pc = "request"
        /\ task[q].call = "query"
        /\ task[q].name_prefix = <<"C", "a">>
        /\ Len(task[q].sent.data) = 43
        /\ SubSeq(task[q].sent.data, 22, 43) =
             <<" ", "W", "H", "E", "R", "E", " ", "N", "a", "m", "e", " ",
               "L", "I", "K", "E", " ", "'", "C", "a", "%", "'">>

RefreshFailed(p) ==
    /\ task[p].call = "refresh"
    /\ task[p].pc \in {"have_token", "done"}
    /\ task[p].access_token = "None"
    /\ task[p].error # NoError

\* C26: a refresh that fails leaves the table as it was, in every field of the
\* realm's row, created_at included; the row is still stale, and the next
\* get_valid_token that finds it attempts the refresh again, with the same
\* refresh_token.
C26_FailedRefreshChangesNothing ==
    [][\A q \in Workers :
         LET t == task[q] IN
         /\ (/\ t.call = "refresh"
             /\ t.pc \in {"returned", "raised"}
             /\ Steps(q)
             /\ task'[q].pc = "have_token")
              => /\ rows' = rows
                 /\ RefreshFailed(q)'
                 /\ First(t.realm_id) = t.db_token
                      => now - t.db_token.created_at > t.db_token.expires_in
         /\ (/\ t.pc = "get_valid_token"
             /\ Steps(q)
             /\ \E p \in Workers \ {q} :
                   /\ RefreshFailed(p)
                   /\ task[p].realm_id = t.realm_id
                   /\ task[p].db_token = First(t.realm_id))
              => /\ task'[q].call = "refresh"
                 /\ task'[q].pc = "request"
                 /\ task'[q].refresh_calls = 1
                 /\ \A p \in Workers \ {q} :
                       (RefreshFailed(p) /\ task[p].realm_id = t.realm_id
                          /\ task[p].db_token = First(t.realm_id))
                         => task'[q].sent = task[p].sent]_vars

\* the refresh of one request has failed, the row is as that request loaded it,
\* and the refresh of the next request is on its way with the same refresh_token
C26_Witness ==
    \E p, q \in Workers :
        /\ p # q
        /\ RefreshFailed(p)
        /\ task[q].realm_id = task[p].realm_id
        /\ task[q].call = "refresh"
        /\ task[q].pc = "request"
        /\ task[q].hist = <<>>
        /\ First(task[p].realm_id) = task[p].db_token
        /\ task[q].db_token = task[p].db_token
        /\ task[q].sent.credential = task[p].db_token.refresh_token

\* C27: a step of a request for realm A (store_tokens of a callback, the lookup,
\* the refresh and its commit in get_valid_token) leaves the rows of every other
\* realm B as they are: none is created, changed or removed.
C27_OtherRealmsUntouched ==
    [][\A q \in Workers : \A B \in Realms :
         (Steps(q) /\ B # task[q].realm_id)
           => RowsOf(rows', B) = RowsOf(rows, B)]_vars

\* realm A's row has just been refreshed while realm B holds a row with other
\* tokens, and B's row is still the one its last writer stored
C27_Witness ==
    \E q \in Workers : \E B \in Realms :
        /\ B # task[q].realm_id
        /\ task[q].pc = "have_token"
        /\ task[q].call = "refresh"
        /\ task[q].access_token # "None"
        /\ First(task[q].realm_id) = task[q].db_token
        /\ First(B) # NoRow
        /\ First(B).access_token # task[q].access_token
        /\ First(B) = QuickBooksToken(B, origin[B].tokens, origin[B].at)
        /\ origin[B].at < origin[task[q].realm_id].at

\* C28: every HTTP request of a refresh carries the refresh_token that the
\* realm's row holds when the request is sent, which is the refresh_token of the
\* realm's latest successful exchange or refresh: the n-th successful refresh
\* presents the refresh_token the (n-1)-th was given, never an older one.
C28_RefreshCarriesStoredToken ==
    [][\A q \in Workers :
         LET t == task[q] IN
         (t.pc = "request" /\ t.call = "refresh" /\ Steps(q))
           => /\ First(t.realm_id) # NoRow
              /\ t.sent.credential = First(t.realm_id).refresh_token
              /\ t.sent.credential = origin[t.realm_id].tokens.refresh_token]_vars

\* C29: when get_valid_token hands an access token to its caller, that token is
\* the access_token of the realm's row at that moment, whatever the other
\* requests for the realm have done in the meantime.
C29_ReturnedTokenIsStored ==
    [][\A q \in Workers :
         LET t == task[q] IN
         (t.pc = "have_token" /\ t.access_token # "None" /\ Steps(q))
           => /\ First(t.realm_id) # NoRow
              /\ t.access_token = First(t.realm_id).access_token]_vars

\* C30: when an accounts request has refreshed the stale token and its query
\* has then failed, the request is answered with an error (400) and the realm's
\* row holds the tokens the refresh was given, with created_at the time of the
\* refresh's commit: the refresh is not undone.
C30_RefreshOutlivesFailedQuery ==
    \A q \in Workers :
        LET t == task[q]
            w == origin[t.realm_id]
        IN  (/\ t.pc = "done"
             /\ t.handler = "accounts"
             /\ t.call = "query"
             /\ t.refresh_calls = 1
             /\ t.result.status_code # 200)
              => /\ t.result.status_code = 400
                 /\ t.result.cause # NoError
                 /\ t.result.content = NoContent
                 /\ t.tokens \in Tokens
                 /\ w = Write("refresh", t.tokens, w.at)
                 /\ RowsOf(rows, t.realm_id) = {QuickBooksToken(t.realm_id, t.tokens, w.at)}

\* a stale row was refreshed after time 0 with the tokens (a2, f2), the query
\* that followed was answered 401, the request ended with 400, and the row
\* holds a2 and f2 and the created_at of the refresh
C30_Witness ==
    \E q \in Workers :
        /\ task[q].pc = "done"
        /\ task[q].handler = "accounts"
        /\ task[q].call = "query"
        /\ task[q].refresh_calls = 1
        /\ task[q].result.status_code = 400
        /\ task[q].result.detail = "ERROR_UNAUTHORIZED"
        /\ task[q].tokens = Token("a2", "f2", "Bearer", 2, 6)
        /\ First(task[q].realm_id).access_token = "a2"
        /\ First(task[q].realm_id).refresh_token = "f2"
        /\ First(task[q].realm_id).created_at > 0

====
